---- MODULE Spec2Model ----
(***************************************************************************)
(* CARMEN log reader (slam_datasets/carmen/carmen_reader.py).              *)
(*                                                                         *)
(* A log line is modelled by the text that decides the dispatch of         *)
(* iter_scans (leading whitespace, first token, the whitespace right after *)
(* it) and by its whitespace-separated tokens.  A token is a numeral or a  *)
(* word: [k, v] with k = "int" (an integer numeral v), k = "dec" (a        *)
(* decimal numeral with one fractional digit, v counted in tenths) or      *)
(* k = "word" (not a numeral).  Floating-point values are counted in       *)
(* tenths; the legacy decoder's angles are exact rational multiples of pi. *)
(***************************************************************************)
EXTENDS Integers, Sequences, FiniteSets, TLC

VARIABLES
    stream,    \* the lines of the file behind self._path
    pos,       \* number of lines the `for line in f` loop has fetched
    handle,    \* the text stream of _open_text: "unopened", "open", "closed"
    pc,        \* position of the iter_scans generator
    out,       \* the records yielded to the consumer, in order
    decoded,   \* per fetched line: the route taken and what the decoder did
    gen        \* the fields a generated ROBOTLASER line pair was built from

vars == <<stream, pos, handle, pc, out, decoded, gen>>

\* ------------------------------------------------------------------ bounds

MaxLines == 2
MaxBeams == 2
MaxRem == 3

\* ------------------------------------------------------------------ tokens

IntTok(v) == [k |-> "int", v |-> v]
DecTok(v) == [k |-> "dec", v |-> v]
Word == [k |-> "word", v |-> 0]

\* int(t): succeeds on an integer numeral only (int("1.0") raises ValueError)
IsInt(t) == t.k = "int"
IntOf(t) == t.v

\* float(t): succeeds on every numeral; the value in tenths
IsFloat(t) == t.k \in {"int", "dec"}
FloatOf(t) == IF t.k = "int" THEN t.v * 10 ELSE t.v

\* ------------------------------------------------------- Python sequences

\* tok[i] raises IndexError unless -len <= i < len
HasIndex(tok, i) == i >= -Len(tok) /\ i < Len(tok)

\* the 0-based position tok[i] reads (negative indices count from the end)
NormIndex(tok, i) == IF i >= 0 THEN i ELSE Len(tok) + i

At(tok, i) == tok[NormIndex(tok, i) + 1]

\* a slice bound, clamped as Python clamps it
ClampBound(tok, b) ==
    IF b < 0 THEN (IF Len(tok) + b < 0 THEN 0 ELSE Len(tok) + b)
    ELSE IF b > Len(tok) THEN Len(tok) ELSE b

\* tok[a:b]
Slice(tok, a, b) ==
    LET lo == ClampBound(tok, a)
        hi == ClampBound(tok, b)
    IN  IF hi <= lo THEN <<>> ELSE SubSeq(tok, lo + 1, hi)

\* list(map(float, s)) raises unless every element is a numeral
AllFloat(s) == \A i \in 1..Len(s) : IsFloat(s[i])
MapFloat(s) == [i \in 1..Len(s) |-> FloatOf(s[i])]

\* float(tok[i]) succeeds
FloatAt(tok, i) == HasIndex(tok, i) /\ IsFloat(At(tok, i))
IntAt(tok, i) == HasIndex(tok, i) /\ IsInt(At(tok, i))

RECURSIVE SeqMax(_)
SeqMax(s) ==
    IF Len(s) = 1 THEN s[1]
    ELSE LET m == SeqMax(Tail(s)) IN IF s[1] >= m THEN s[1] ELSE m

PyMax(a, b) == IF a >= b THEN a ELSE b

\* ------------------------------------------------------------------ records

\* Optional[T]: <<>> is None, <<x>> is x
NoneVal == <<>>
Some(x) == <<x>>

Pose2D(x, y, yaw) == [x |-> x, y |-> y, yaw |-> yaw]

\* an angle: num/den of a unit, the unit being a tenth of a radian (a value
\* read from the line) or pi (the legacy decoder's fixed field of view)
Rad(v) == [unit |-> "tenth", num |-> v, den |-> 1]

RECURSIVE Gcd(_, _)
Gcd(a, b) == IF b = 0 THEN a ELSE Gcd(b, a % b)

Abs(a) == IF a < 0 THEN -a ELSE a

PiFrac(num, den) ==
    LET g == Gcd(Abs(num), den)
    IN  [unit |-> "pi", num |-> num \div g, den |-> den \div g]

\* a - b and a / m for multiples of pi
PiSub(a, b) == PiFrac(a.num * b.den - b.num * a.den, a.den * b.den)
PiDiv(a, m) == PiFrac(a.num, a.den * m)

scan_frame_id == "laser"

\* What a decoder returns (None, or a LaserScan2DRecord) together with what
\* it did on the way: n as read from the line, the successive values of idx,
\* and the position the stamp was read from.
None == [ok |-> FALSE]
Failed == [rec |-> None, n |-> 0, cursor |-> <<>>, stampPos |-> 0]

\* ---------------------------------------------------------------- decoders

min_tail_A == 15

\* the threshold off by one: a Variant A tail of n remissions taken for flags
IsVariantB_inclusive(remaining, n) == remaining >= min_tail_A + n

\* the layout heuristic: more tokens left than Variant A can account for
IsVariantB(remaining, n) == remaining > min_tail_A + n

\* one safety field too few skipped: the stamp read from turn_axis
SafetySkip_short(idx) == idx + 2

\* the token the stamp is read from, as an offset from idx after the
\* velocities: forward_safety, side_safety and turn_axis are skipped
SafetySkip(idx) == idx + 3

\* _parse_robotlaser on the tokens of line.strip().split()
parse_robotlaser_run(tok) ==
    IF ~(/\ IntAt(tok, 1) /\ FloatAt(tok, 2) /\ FloatAt(tok, 3)
         /\ FloatAt(tok, 4) /\ FloatAt(tok, 5) /\ FloatAt(tok, 6)
         /\ IntAt(tok, 7) /\ IntAt(tok, 8))
    THEN Failed
    ELSE
    LET start_angle == FloatOf(At(tok, 2))
        ang_res == FloatOf(At(tok, 4))
        max_range == FloatOf(At(tok, 5))
        n == IntOf(At(tok, 8))
        rtok == Slice(tok, 9, 9 + n)
        idxR == 9 + n
        remaining == Len(tok) - idxR
        variantB == IsVariantB(remaining, n)
        idxN == IF variantB THEN idxR + n ELSE idxR
    IN  IF ~(AllFloat(rtok) /\ IntAt(tok, idxN))
        THEN Failed
        ELSE
        LET num_rem == IntOf(At(tok, idxN))
            idxL == idxN + 1 + num_rem
            idxP == idxL + 3
            idxT == idxP + 3
            idxV == idxT + 1
            idxS == SafetySkip(idxV + 1)
        IN  IF ~(/\ FloatAt(tok, idxL) /\ FloatAt(tok, idxL + 1)
                 /\ FloatAt(tok, idxL + 2)
                 /\ FloatAt(tok, idxP) /\ FloatAt(tok, idxP + 1)
                 /\ FloatAt(tok, idxP + 2)
                 /\ FloatAt(tok, idxT) /\ FloatAt(tok, idxV)
                 /\ FloatAt(tok, idxS))
            THEN Failed
            ELSE
            [rec |->
                [ok |-> TRUE,
                 stamp |-> FloatOf(At(tok, idxS)),
                 frame_id |-> scan_frame_id,
                 angle_min |-> Rad(start_angle),
                 angle_increment |-> Rad(ang_res),
                 range_min |-> 0,
                 range_max |-> max_range,
                 ranges |-> MapFloat(rtok),
                 robot_pose |-> Some(Pose2D(FloatOf(At(tok, idxP)),
                                            FloatOf(At(tok, idxP + 1)),
                                            FloatOf(At(tok, idxP + 2)))),
                 laser_pose |-> Some(Pose2D(FloatOf(At(tok, idxL)),
                                            FloatOf(At(tok, idxL + 1)),
                                            FloatOf(At(tok, idxL + 2)))),
                 tv |-> Some(FloatOf(At(tok, idxT))),
                 rv |-> Some(FloatOf(At(tok, idxV)))],
             n |-> n,
             cursor |-> <<1, 2, 3, 4, 5, 6, 7, 8, 9, idxR>>
                        \o (IF variantB THEN <<idxN>> ELSE <<>>)
                        \o <<idxN + 1, idxL, idxP, idxT, idxV, idxV + 1,
                             idxS, idxS + 1>>,
             stampPos |-> NormIndex(tok, idxS)]

\* the legacy decoder's beam spacing over its assumed 180 degrees
angle_min_legacy == PiFrac(-1, 2)
angle_max_legacy == PiFrac(1, 2)
\* the field of view divided by the beam count, not by the gaps between beams
flaser_angle_increment_per_beam(n) ==
    PiDiv(PiSub(angle_max_legacy, angle_min_legacy), PyMax(n, 1))

flaser_angle_increment(n) ==
    PiDiv(PiSub(angle_max_legacy, angle_min_legacy), PyMax(n - 1, 1))

\* _parse_flaser on the tokens of line.strip().split()
parse_flaser_run(tok) ==
    IF ~IntAt(tok, 1)
    THEN Failed
    ELSE
    LET n == IntOf(At(tok, 1))
        rtok == Slice(tok, 2, 2 + n)
        idx == 2 + n
    IN  IF ~(/\ AllFloat(rtok)
             /\ FloatAt(tok, idx) /\ FloatAt(tok, idx + 1)
             /\ FloatAt(tok, idx + 2)
             /\ FloatAt(tok, -3))
        THEN Failed
        ELSE
        [rec |->
            [ok |-> TRUE,
             stamp |-> FloatOf(At(tok, -3)),
             frame_id |-> scan_frame_id,
             angle_min |-> angle_min_legacy,
             angle_increment |-> flaser_angle_increment(n),
             range_min |-> 0,
             range_max |-> IF Len(rtok) > 0 THEN SeqMax(MapFloat(rtok)) ELSE 0,
             ranges |-> MapFloat(rtok),
             robot_pose |-> Some(Pose2D(FloatOf(At(tok, idx)),
                                        FloatOf(At(tok, idx + 1)),
                                        FloatOf(At(tok, idx + 2)))),
             laser_pose |-> NoneVal,
             tv |-> NoneVal,
             rv |-> NoneVal],
         n |-> n,
         cursor |-> <<0, 1, 2, idx, idx + 3>>,
         stampPos |-> NormIndex(tok, -3)]

\* _parse_rlaser
parse_rlaser_run(tok) == parse_flaser_run(tok)

\* ------------------------------------------------------------------- lines

\* A line: leading whitespace, the first token's text ("" on a blank line),
\* the whitespace right after it ("" when the line ends there) and the
\* tokens that follow.
MkLine(lead, tag, sep, body) ==
    [lead |-> lead, tag |-> tag, sep |-> sep, body |-> body]

\* the text the line starts with
RawHead(line) == line.lead \o line.tag \o line.sep

\* line.strip().split()
Tokens(line) == IF line.tag = "" THEN <<>> ELSE <<Word>> \o line.body

\* str.startswith
StartsWith(s, p) == Len(s) >= Len(p) /\ SubSeq(s, 1, Len(p)) = p

\* the branch iter_scans takes for a line
Route(line) ==
    LET raw == RawHead(line)
    IN  IF StartsWith(raw, "#") THEN "skip"
        ELSE IF StartsWith(raw, "ROBOTLASER") THEN "robotlaser"
        ELSE IF StartsWith(raw, "FLASER ") THEN "flaser"
        ELSE IF StartsWith(raw, "RLASER ") THEN "rlaser"
        ELSE "none"

\* one pass of the loop body before the yield
Decode(line) ==
    LET route == Route(line)
        run == IF route = "robotlaser" THEN parse_robotlaser_run(Tokens(line))
               ELSE IF route = "flaser" THEN parse_flaser_run(Tokens(line))
               ELSE IF route = "rlaser" THEN parse_rlaser_run(Tokens(line))
               ELSE Failed
    IN  [line |-> 0, route |-> route, rec |-> run.rec, n |-> run.n,
         cursor |-> run.cursor, stampPos |-> run.stampPos]

\* ------------------------------------------------------------- the session

\* _open_text returns an open text stream
OpenText == "open"

\* the stream opened without a `with` block: nothing closes it
WithExit_leak(h) == h

\* leaving the `with` block closes the stream, however the block is left
WithExit(h) == "closed"

\* the None test dropped: whatever the decoder returned is yielded
ShouldYield_always(rec) == TRUE

\* `if rec is not None: yield rec`
ShouldYield(rec) == rec # None

\* the line the file iterator hands out next, and its position afterwards
FileLine(f, p) == f[p + 1]
FileAdvance(p) == p + 1

\* next(): the first one runs the generator from its start and opens the
\* stream; a later one resumes it after the yield
Request ==
    /\ pc \in {"created", "suspended"}
    /\ handle' = IF pc = "created" THEN OpenText ELSE handle
    /\ pc' = "running"
    /\ UNCHANGED <<stream, pos, out, decoded, gen>>

\* _open_text raises (no such file, not readable): nothing was opened
OpenFail ==
    /\ pc = "created"
    /\ pc' = "failed"
    /\ UNCHANGED <<stream, pos, handle, out, decoded, gen>>

\* one iteration of `for line in f`: fetch, dispatch, decode, maybe yield
FetchLine ==
    /\ pc = "running"
    /\ pos < Len(stream)
    /\ LET d == Decode(FileLine(stream, pos))
       IN  /\ decoded' = Append(decoded, [d EXCEPT !.line = pos + 1])
           /\ IF ShouldYield(d.rec)
              THEN out' = Append(out, d.rec) /\ pc' = "suspended"
              ELSE UNCHANGED <<out, pc>>
    /\ pos' = FileAdvance(pos)
    /\ UNCHANGED <<stream, handle, gen>>

\* the file iterator is exhausted: the loop and the `with` block end
EndOfStream ==
    /\ pc = "running"
    /\ pos = Len(stream)
    /\ handle' = WithExit(handle)
    /\ pc' = "done"
    /\ UNCHANGED <<stream, pos, out, decoded, gen>>

\* reading raises (I/O error, corrupt gzip data): the exception leaves the
\* `with` block and reaches the consumer
ReadFail ==
    /\ pc = "running"
    /\ handle' = WithExit(handle)
    /\ pc' = "failed"
    /\ UNCHANGED <<stream, pos, out, decoded, gen>>

\* the consumer stops early: close(), or the finalizer of a dropped
\* generator, raises GeneratorExit at the yield; a generator that never
\* started has opened nothing
Close ==
    /\ pc \in {"created", "suspended"}
    /\ handle' = IF pc = "suspended" THEN WithExit(handle) ELSE handle
    /\ pc' = "closed"
    /\ UNCHANGED <<stream, pos, out, decoded, gen>>

Next ==
    \/ Request
    \/ OpenFail
    \/ FetchLine
    \/ EndOfStream
    \/ ReadFail
    \/ Close

\* ------------------------------------------------------------ file contents

\* FLASER/RLASER: n, the ranges, a pose, the odometry pose, then
\* ipc_timestamp ipc_hostname logger_timestamp
LegacyPose == <<DecTok(5), DecTok(5), DecTok(0)>>
LegacyTrailer == <<DecTok(10000), Word, DecTok(10001)>>
LegacyBody(n, ranges) ==
    <<IntTok(n)>> \o ranges \o LegacyPose \o LegacyPose \o LegacyTrailer

\* ROBOTLASER: laser_type start_angle fov ang_res max_range accuracy
\* remission_mode n
RobotHeader(ang_res, max_range, n) ==
    <<IntTok(0), DecTok(-15), DecTok(31), ang_res, max_range, DecTok(1),
      IntTok(0), IntTok(n)>>

\* laser pose, robot pose, tv, rv, forward/side safety and turn axis, then
\* ipc_timestamp ipc_hostname logger_timestamp
RobotPoses ==
    <<DecTok(11), DecTok(12), DecTok(13), DecTok(21), DecTok(22), DecTok(23),
      DecTok(4), DecTok(6), DecTok(7), DecTok(8), DecTok(9)>>
RobotTail(stamp) == RobotPoses \o <<stamp, Word, DecTok(stamp.v + 1)>>

ThreeRanges == <<DecTok(10), DecTok(20), DecTok(30)>>
TwoRanges == <<DecTok(10), DecTok(20)>>

\* "FLASER 3 1.0 2.0 3.0 0.5 0.5 0.0 0.5 0.5 0.0 1000.0 host 1000.1"
LineFlaser3 == MkLine("", "FLASER", " ", LegacyBody(3, ThreeRanges))

LegacyLines ==
    { LineFlaser3,
      MkLine("", "RLASER", " ", LegacyBody(3, ThreeRanges)),
      MkLine(" ", "FLASER", " ", LegacyBody(3, ThreeRanges)),
      MkLine("", "FLASER", "\t", LegacyBody(3, ThreeRanges)),
      MkLine("", "FLASERX", " ", LegacyBody(3, ThreeRanges)),
      MkLine("", "FLASER", "", <<>>),
      MkLine("", "FLASER", " ", LegacyBody(0, <<>>)),
      MkLine("", "FLASER", " ", LegacyBody(1, <<DecTok(25)>>)),
      MkLine("", "FLASER", " ", LegacyBody(2, <<DecTok(-10), DecTok(-20)>>)),
      MkLine("", "FLASER", " ", LegacyBody(2, <<DecTok(10), Word>>)),
      MkLine("", "FLASER", " ", <<IntTok(5)>> \o TwoRanges),
      MkLine("", "FLASER", " ",
             <<IntTok(1), DecTok(20), IntTok(3), IntTok(4), IntTok(5)>>),
      MkLine("", "RLASER", " ",
             <<IntTok(-1)>> \o ThreeRanges \o LegacyTrailer) }

RobotLines ==
    { \* Variant A, no remissions
      MkLine("", "ROBOTLASER1", " ",
             RobotHeader(DecTok(1), DecTok(819), 2) \o TwoRanges
             \o <<IntTok(0)>> \o RobotTail(DecTok(10000))),
      \* Variant B, one remission per beam
      MkLine("", "ROBOTLASER2", " ",
             RobotHeader(DecTok(1), DecTok(819), 2) \o TwoRanges
             \o <<IntTok(0), IntTok(1)>>
             \o <<IntTok(2), DecTok(5), DecTok(5)>>
             \o RobotTail(DecTok(10000))),
      \* a negative max-range field
      MkLine("", "ROBOTLASER1", " ",
             RobotHeader(DecTok(1), DecTok(-10), 2) \o TwoRanges
             \o <<IntTok(0)>> \o RobotTail(DecTok(10000))),
      \* a negative beam count
      MkLine("", "ROBOTLASER1", " ",
             RobotHeader(DecTok(1), DecTok(819), -1)
             \o <<IntTok(0)>> \o RobotTail(DecTok(10000))),
      \* a negative remission count
      MkLine("", "ROBOTLASER1", " ",
             RobotHeader(DecTok(1), DecTok(819), 2) \o TwoRanges
             \o <<IntTok(-1)>> \o RobotTail(DecTok(10000))),
      \* no ipc_hostname and logger_timestamp
      MkLine("", "ROBOTLASER1", " ",
             RobotHeader(DecTok(1), DecTok(819), 2) \o TwoRanges
             \o <<IntTok(0)>> \o RobotPoses \o <<DecTok(10000)>>),
      \* a word where the stamp should be
      MkLine("", "ROBOTLASER1", " ",
             RobotHeader(DecTok(1), DecTok(819), 2) \o TwoRanges
             \o <<IntTok(0)>> \o RobotPoses \o <<Word, Word, DecTok(10001)>>),
      \* fewer readings than the beam count
      MkLine("", "ROBOTLASER1", " ",
             RobotHeader(DecTok(1), DecTok(819), 5) \o TwoRanges),
      \* leading whitespace
      MkLine(" ", "ROBOTLASER1", " ",
             RobotHeader(DecTok(1), DecTok(819), 2) \o TwoRanges
             \o <<IntTok(0)>> \o RobotTail(DecTok(10000))) }

OtherLines ==
    { MkLine("", "", "", <<>>),
      MkLine("", "#", " ", <<Word>>),
      MkLine("", "#FLASER", " ", LegacyBody(3, ThreeRanges)),
      MkLine("", "ODOM", " ", <<DecTok(5), DecTok(5), DecTok(0)>>) }

Lines == LegacyLines \cup RobotLines \cup OtherLines

\* a ROBOTLASER line pair is built from: n readings, r remission values,
\* n too-close flags, the angular resolution and the stamp
RangeToks == {DecTok(10), IntTok(2)}
RemToks == {IntTok(1), DecTok(5)}
FlagToks == {IntTok(0), IntTok(1)}
ResToks == {DecTok(1), DecTok(5)}

GenFields ==
    UNION { UNION { { [n |-> n, r |-> r, ranges |-> rs, rems |-> ms,
                       flags |-> fs, res |-> a, stamp |-> DecTok(10000)] :
                      rs \in [1..n -> RangeToks], ms \in [1..r -> RemToks],
                      fs \in [1..n -> FlagToks], a \in ResToks }
                    : r \in 0..MaxRem }
            : n \in 0..MaxBeams }

NoGen ==
    [n |-> 0, r |-> 0, ranges |-> <<>>, rems |-> <<>>, flags |-> <<>>,
     res |-> DecTok(1), stamp |-> DecTok(10000)]

\* Variant A: num_remissions then the remissions, then the poses
LayoutA(g) ==
    MkLine("", "ROBOTLASER1", " ",
           RobotHeader(g.res, DecTok(819), g.n) \o g.ranges
           \o <<IntTok(g.r)>> \o g.rems \o RobotTail(g.stamp))

\* Variant B: the n too-close flags come first
LayoutB(g) ==
    MkLine("", "ROBOTLASER1", " ",
           RobotHeader(g.res, DecTok(819), g.n) \o g.ranges \o g.flags
           \o <<IntTok(g.r)>> \o g.rems \o RobotTail(g.stamp))

\* ------------------------------------------------------------ specifications

Fresh ==
    /\ pos = 0
    /\ handle = "unopened"
    /\ pc = "created"
    /\ out = <<>>
    /\ decoded = <<>>

\* a reader on a file of at most MaxLines lines
Init ==
    /\ stream \in UNION { [1..k -> Lines] : k \in 0..MaxLines }
    /\ gen = NoGen
    /\ Fresh

Spec == Init /\ [][Next]_vars

\* a reader on a file holding a Variant A line and the Variant B line made
\* from it by inserting the too-close flags
InitLayout ==
    /\ gen \in GenFields
    /\ stream = <<LayoutA(gen), LayoutB(gen)>>
    /\ Fresh

SpecLayout == InitLayout /\ [][Next]_vars

\* ------------------------------------------------------------------ claims

Fetched == 1..Len(decoded)
HasRec(d) == d.rec # None
IsLegacy(d) == d.route \in {"flaser", "rlaser"}

\* C1: every emitted record has as many ranges as the beam count n declared
\* on its own line, whatever n is (negative, zero, larger than the line).
C1_RangesMatchBeamCount ==
    \A i \in Fetched :
        HasRec(decoded[i]) => Len(decoded[i].rec.ranges) = decoded[i].n

\* the fields the two layouts of one scan must agree on
SameScan(a, b) ==
    /\ a.ranges = b.ranges
    /\ a.laser_pose = b.laser_pose
    /\ a.robot_pose = b.robot_pose
    /\ a.tv = b.tv
    /\ a.rv = b.rv

BothLayoutsAgree ==
    /\ HasRec(decoded[1])
    /\ HasRec(decoded[2])
    /\ SameScan(decoded[1].rec, decoded[2].rec)

\* the remission counts for which the token count tells the layouts apart
\* (with n = 0 there are no flags and the two lines are one)
Classifiable(g) == g.n = 0 \/ (1 <= g.r /\ g.r <= g.n)

\* C2 as stated: a Variant A line with any remission count r, r = 0
\* included, and the Variant B line made from it by inserting the n
\* too-close flags both decode, to the same ranges, poses and velocities.
C2_LayoutsAgree == Len(decoded) = 2 => BothLayoutsAgree

\* C2 as amended: the same, for lines with n = 0 or 1 <= r <= n.
C2_LayoutsAgreeWhenClassifiable ==
    (Len(decoded) = 2 /\ Classifiable(gen)) => BothLayoutsAgree

C2_Witness ==
    /\ Len(decoded) = 2
    /\ gen.n >= 2
    /\ gen.r >= 1
    /\ gen.r <= gen.n
    /\ BothLayoutsAgree
    /\ Len(Tokens(stream[2])) = Len(Tokens(stream[1])) + gen.n

\* what decoding "FLASER 3 1.0 2.0 3.0 0.5 0.5 0.0 0.5 0.5 0.0 1000.0 host
\* 1000.1" gives, but for the beam spacing
Flaser3Fields(rec) ==
    /\ rec # None
    /\ rec.ranges = <<10, 20, 30>>
    /\ rec.robot_pose = Some(Pose2D(5, 5, 0))
    /\ rec.stamp = 10000
    /\ rec.angle_min = PiFrac(-1, 2)

\* C3 as stated: that line decodes to ranges [1.0, 2.0, 3.0], robot_pose
\* (0.5, 0.5, 0.0), stamp 1000.0, angle_min -pi/2 and angle_increment pi/4.
C3_Flaser3_QuarterPi ==
    \A i \in Fetched :
        stream[decoded[i].line] = LineFlaser3 =>
            /\ Flaser3Fields(decoded[i].rec)
            /\ decoded[i].rec.angle_increment = PiFrac(1, 4)

\* C3 as amended: the same fields, with angle_increment pi/2, which is
\* (angle_max - angle_min) / max(n - 1, 1) for n = 3.
C3_Flaser3_HalfPi ==
    \A i \in Fetched :
        stream[decoded[i].line] = LineFlaser3 =>
            /\ Flaser3Fields(decoded[i].rec)
            /\ decoded[i].rec.angle_increment = PiFrac(1, 2)

C3_Witness ==
    \E i \in Fetched :
        /\ stream[decoded[i].line] = LineFlaser3
        /\ HasRec(decoded[i])
        /\ Len(out) >= 1

\* the fewest tokens a line of each layout has: the tag, the fixed fields,
\* n ranges, the poses and velocities read, and the three-token trailer
LegacyRequired(n) == 1 + 1 + n + 3 + 3
RobotRequired(n) == 1 + 8 + n + 1 + 3 + 3 + 2 + 3 + 3

TooShort(d, tok) ==
    IF IsLegacy(d)
    THEN ~IntAt(tok, 1) \/ Len(tok) < LegacyRequired(IntOf(At(tok, 1)))
    ELSE ~IntAt(tok, 8) \/ Len(tok) < RobotRequired(IntOf(At(tok, 8)))

\* a word in one of the numeric fields that precede the layout's tail: the
\* legacy line's ranges and pose, the robot-laser line's header and ranges
BadNumeral(d, tok) ==
    /\ ~TooShort(d, tok)
    /\ IF IsLegacy(d)
       THEN \E j \in 2..(IntOf(At(tok, 1)) + 4) : ~IsFloat(At(tok, j))
       ELSE \E j \in 1..(IntOf(At(tok, 8)) + 8) : ~IsFloat(At(tok, j))

Malformed(d, tok) == TooShort(d, tok) \/ BadNumeral(d, tok)

\* C4: a line with a recognized tag that is malformed (fewer tokens than
\* its layout requires, or a word in a numeric field) produces no record,
\* so no record of a stream comes from a malformed line.
C4_MalformedYieldsNothing ==
    \A i \in Fetched :
        (/\ decoded[i].route \in {"robotlaser", "flaser", "rlaser"}
         /\ Malformed(decoded[i], Tokens(stream[decoded[i].line])))
        => ~HasRec(decoded[i])

\* what the line gives when it is classified by its first token after
\* trimming: blank or comment ignored, ROBOTLASER* to the robot-laser
\* decoder, exactly FLASER or RLASER to the legacy decoder, else nothing
ByFirstToken(line) ==
    LET t == line.tag
    IN  IF t = "" \/ StartsWith(t, "#") THEN None
        ELSE IF StartsWith(t, "ROBOTLASER")
             THEN parse_robotlaser_run(Tokens(line)).rec
        ELSE IF t \in {"FLASER", "RLASER"}
             THEN parse_flaser_run(Tokens(line)).rec
        ELSE None

\* C5: the outcome of a line is the one its first whitespace-delimited
\* token after trimming decides, also with leading whitespace or a tab
\* after the tag.
C5_DispatchOnFirstToken ==
    \A i \in Fetched : decoded[i].rec = ByFirstToken(stream[decoded[i].line])

\* C6: whenever the sequence has ended (exhausted, closed or abandoned by
\* the consumer, or failed), the stream handle is not left open.
C6_HandleReleased == pc \in {"done", "closed", "failed"} => handle # "open"

C6_Witness ==
    /\ pc = "closed"
    /\ handle = "closed"
    /\ Len(out) >= 1
    /\ pos < Len(stream)

RecOf(d) == d.rec
MapRec(s) == [i \in 1..Len(s) |-> RecOf(s[i])]

\* C7: lines are fetched forward, each once; the records yielded are those
\* of the lines that decoded, in line order; while the generator is
\* suspended the last line fetched is the one that yielded; it is done only
\* at the end of the stream.
C7_ForwardLazySinglePass ==
    /\ Len(decoded) = pos
    /\ \A i \in Fetched :
        /\ decoded[i].line = i
        /\ decoded[i].rec = Decode(stream[i]).rec
    /\ out = MapRec(SelectSeq(decoded, HasRec))
    /\ pc = "suspended" => (pos >= 1 /\ HasRec(decoded[pos]))
    /\ pc = "done" => pos = Len(stream)

C7_Witness ==
    /\ pc = "done"
    /\ pos = MaxLines
    /\ Len(out) = 1
    /\ HasRec(decoded[1])

\* C8: every emitted record has range_max >= range_min >= 0.
C8_RangeBoundsOrdered ==
    \A i \in Fetched :
        HasRec(decoded[i]) =>
            /\ decoded[i].rec.range_max >= decoded[i].rec.range_min
            /\ decoded[i].rec.range_min >= 0

NonDecreasing(s) == \A j \in 1..(Len(s) - 1) : s[j] <= s[j + 1]

\* C9: in every decode that emits a record the read position never
\* decreases, and the legacy decoder's stamp is not read from before it.
C9_CursorNeverMovesBack ==
    \A i \in Fetched :
        HasRec(decoded[i]) =>
            /\ NonDecreasing(decoded[i].cursor)
            /\ IsLegacy(decoded[i]) =>
                  decoded[i].stampPos
                      >= decoded[i].cursor[Len(decoded[i].cursor)]

\* what a Variant A line built from g must decode to
DecodesAsDeclared(d, g) ==
    /\ HasRec(d)
    /\ Len(d.rec.ranges) = g.n
    /\ d.rec.ranges = MapFloat(g.ranges)
    /\ d.rec.angle_increment = Rad(FloatOf(g.res))
    /\ d.rec.stamp = FloatOf(g.stamp)

\* C10 as stated: every well-formed Variant A line, with any remission
\* count r, decodes to its n readings, its angular resolution and the
\* first value of its timestamp triplet.
C10_VariantADecodes == Len(decoded) >= 1 => DecodesAsDeclared(decoded[1], gen)

\* C10 as amended: the same, for lines with r <= n or n = 0.
C10_VariantADecodesWhenFew ==
    (Len(decoded) >= 1 /\ (gen.r <= gen.n \/ gen.n = 0))
    => DecodesAsDeclared(decoded[1], gen)

C10_Witness ==
    /\ Len(decoded) >= 1
    /\ gen.n >= 2
    /\ gen.r = gen.n
    /\ DecodesAsDeclared(decoded[1], gen)
    /\ Len(out) >= 1

====
